---- MODULE Spec2Model ----
(***************************************************************************)
(* A model of bridge-types (src/src/lib.rs): the bitset-backed Holding and *)
(* its double-ended HoldingIterator, the Seat rotation and relation        *)
(* functions, and the per-dimension containers PerSuit, PerSeat,           *)
(* PerStrain and PerSide.                                                  *)
(***************************************************************************)
EXTENDS Integers, Sequences, FiniteSets, TLC

VARIABLES
    holding,    \* Holding.0, the u32 bit pattern of the holding being built
    nops,       \* number of add/remove calls made on the holding so far
    xs,         \* the rank sequence handed to from_iter
    pc,         \* last Holding operation: "build", "iter", "next", "next_back"
    it,         \* the HoldingIterator: [holding, front, back]
    outF,       \* the values next() has returned since iter()
    outB,       \* the values next_back() has returned since iter()
    ret,        \* the last Option<u32> returned: <<>> is None, <<v>> is Some(v)
    origin,     \* the seat a rotation walk started from
    seat,       \* the seat the walk is at (self)
    other,      \* the reference seat of relation_to
    turns,      \* net number of clockwise steps from origin to seat
    sop,        \* last Seat operation called
    sres,       \* its result
    pkind,      \* which container type: "PerSuit", "PerSeat", "PerStrain", "PerSide"
    per,        \* the container, a record with one field per key
    pphase,     \* "init", "fresh" (just new), "built" (index_mut), "mapped"
    pv,         \* the value given to new
    pf,         \* the function given to the last map
    pold        \* the container the last map consumed

hvars == <<holding, nops, xs, pc, it, outF, outB, ret>>
svars == <<origin, seat, other, turns, sop, sres>>
pvars == <<pkind, per, pphase, pv, pf, pold>>
vars == <<holding, nops, xs, pc, it, outF, outB, ret,
          origin, seat, other, turns, sop, sres,
          pkind, per, pphase, pv, pf, pold>>

----------------------------------------------------------------------------
(* Bounds *)

\* at most this many add/remove calls (from_iter counts one per element)
MaxOps == 3
\* the sequences handed to from_iter on their own have at most this length
MaxLen == 4
\* a rotation walk is at most this many clockwise steps away from its origin
MaxTurns == 8
\* container values are 0..MaxVal
MaxVal == 1

----------------------------------------------------------------------------
(* The u32 of a Holding *)

\* the width of Holding's field
Width == 32

\* TLC's integers are 32-bit signed, so the u32 bit pattern is held as the set
\* of the positions of its one-bits: {2, 5, 8} is 0b100100100.
Bits(n) == {i \in 0 .. (Width - 2) : (n \div (2 ^ i)) % 2 = 1}

\* 1 << rank: the shift amount of a u32 shift is below Width
Shl1(rank) == {rank % Width}

\* u32::count_ones
count_ones(x) == Cardinality(x)

----------------------------------------------------------------------------
(* Holding *)

\* every rank argument a u32 shift accepts
Ranks == 0 .. (Width - 1)

Holding_new == Bits(0)

\* self.0 & (1 << rank) != 0
contains(h, rank) == (h \cap Shl1(rank)) # {}

\* add with ^= in place of |=
add_xor(h, rank) == (h \ Shl1(rank)) \cup (Shl1(rank) \ h)

\* self.0 |= 1 << rank
add(h, rank) == h \cup Shl1(rank)

\* !m on u32
BitNot(m) == (0 .. (Width - 1)) \ m

\* self.0 &= !(1 << rank)
remove(h, rank) == h \cap BitNot(Shl1(rank))

count(h) == count_ones(h)

\* for i in iter { holding.add(i) }
RECURSIVE fold_add(_, _)
fold_add(h, s) == IF s = <<>> THEN h ELSE fold_add(add(h, Head(s)), Tail(s))

from_iter(s) == fold_add(Holding_new, s)

\* the forward scan with the limit 16 in place of 15
RECURSIVE ScanUp_limit16(_, _)
ScanUp_limit16(h, f) ==
    IF f < 16 /\ ~contains(h, f) THEN ScanUp_limit16(h, f + 1) ELSE f

\* while front < 15 && !contains(front) { front += 1 }
RECURSIVE ScanUp(_, _)
ScanUp(h, f) == IF f < 15 /\ ~contains(h, f) THEN ScanUp(h, f + 1) ELSE f

\* the backward scan with the negation of contains dropped
RECURSIVE ScanDown_skipHeld(_, _)
ScanDown_skipHeld(h, b) ==
    IF b > 1 /\ contains(h, b) THEN ScanDown_skipHeld(h, b - 1) ELSE b

\* while back > 1 && !contains(back) { back -= 1 }
RECURSIVE ScanDown(_, _)
ScanDown(h, b) == IF b > 1 /\ ~contains(h, b) THEN ScanDown(h, b - 1) ELSE b

iter(h) == [holding |-> h, front |-> ScanUp(h, 2), back |-> ScanDown(h, 14)]

\* next with the exhaustion test front >= back
HoldingIterator_next_ge(i) ==
    IF i.front >= i.back
    THEN [it |-> i, ret |-> <<>>]
    ELSE [it |-> [i EXCEPT !.front = ScanUp(i.holding, i.front + 1)],
          ret |-> <<i.front>>]

\* next with front advancing up to, and not past, back + 1
HoldingIterator_next_stopAtBack(i) ==
    IF i.front > i.back
    THEN [it |-> i, ret |-> <<>>]
    ELSE LET f == ScanUp(i.holding, i.front + 1) IN
         [it |-> [i EXCEPT !.front = IF f > i.back THEN i.back + 1 ELSE f],
          ret |-> <<i.front>>]

\* the result of a call: the iterator afterwards and the Option returned
HoldingIterator_next(i) ==
    IF i.front > i.back
    THEN [it |-> i, ret |-> <<>>]
    ELSE [it |-> [i EXCEPT !.front = ScanUp(i.holding, i.front + 1)],
          ret |-> <<i.front>>]

HoldingIterator_next_back(i) ==
    IF i.front > i.back
    THEN [it |-> i, ret |-> <<>>]
    ELSE [it |-> [i EXCEPT !.back = ScanDown(i.holding, i.back - 1)],
          ret |-> <<i.back>>]

----------------------------------------------------------------------------
(* Seat *)

Seats == {"North", "East", "South", "West"}
SeatRelations == {"Me", "LHO", "Partner", "RHO"}

next(s) ==
    CASE s = "North" -> "East"
      [] s = "East" -> "South"
      [] s = "South" -> "West"
      [] s = "West" -> "North"

partner(s) ==
    CASE s = "North" -> "South"
      [] s = "East" -> "West"
      [] s = "South" -> "North"
      [] s = "West" -> "East"

lho(s) ==
    CASE s = "North" -> "East"
      [] s = "East" -> "South"
      [] s = "South" -> "West"
      [] s = "West" -> "North"

\* rho with the table of next copied into it
rho_asNext(s) ==
    CASE s = "North" -> "East"
      [] s = "East" -> "South"
      [] s = "South" -> "West"
      [] s = "West" -> "North"

rho(s) ==
    CASE s = "North" -> "West"
      [] s = "East" -> "North"
      [] s = "South" -> "East"
      [] s = "West" -> "South"

\* relation_to with the second test against other.rho()
relation_to_rhoFirst(self, oth) ==
    IF self = oth THEN "Me"
    ELSE IF self = rho(oth) THEN "LHO"
    ELSE IF self = partner(oth) THEN "Partner"
    ELSE "RHO"

relation_to(self, oth) ==
    IF self = oth THEN "Me"
    ELSE IF self = next(oth) THEN "LHO"
    ELSE IF self = partner(oth) THEN "Partner"
    ELSE "RHO"

----------------------------------------------------------------------------
(* Per-dimension containers *)

Suits == {"Spades", "Hearts", "Diamonds", "Clubs"}
NoTrump == <<"NoTrump">>
Strain_from(suit) == <<"Suit", suit>>
Strains == {NoTrump} \cup {Strain_from(s) : s \in Suits}
Sides == {"NS", "EW"}

PerSuit_new(value) ==
    [spades |-> value, hearts |-> value, diamonds |-> value, clubs |-> value]

PerSuit_map(c, f) ==
    [spades |-> f[c.spades], hearts |-> f[c.hearts],
     diamonds |-> f[c.diamonds], clubs |-> f[c.clubs]]

PerSuit_index(c, k) ==
    CASE k = "Spades" -> c.spades
      [] k = "Hearts" -> c.hearts
      [] k = "Diamonds" -> c.diamonds
      [] k = "Clubs" -> c.clubs

PerSuit_index_mut(c, k, w) ==
    CASE k = "Spades" -> [c EXCEPT !.spades = w]
      [] k = "Hearts" -> [c EXCEPT !.hearts = w]
      [] k = "Diamonds" -> [c EXCEPT !.diamonds = w]
      [] k = "Clubs" -> [c EXCEPT !.clubs = w]

PerSeat_new(value) ==
    [north |-> value, east |-> value, south |-> value, west |-> value]

\* map that moves west over without applying f
PerSeat_map_westKept(c, f) ==
    [north |-> f[c.north], east |-> f[c.east],
     south |-> f[c.south], west |-> c.west]

PerSeat_map(c, f) ==
    [north |-> f[c.north], east |-> f[c.east],
     south |-> f[c.south], west |-> f[c.west]]

PerSeat_index(c, k) ==
    CASE k = "North" -> c.north
      [] k = "East" -> c.east
      [] k = "South" -> c.south
      [] k = "West" -> c.west

PerSeat_index_mut(c, k, w) ==
    CASE k = "North" -> [c EXCEPT !.north = w]
      [] k = "East" -> [c EXCEPT !.east = w]
      [] k = "South" -> [c EXCEPT !.south = w]
      [] k = "West" -> [c EXCEPT !.west = w]

PerStrain_new(value) ==
    [notrump |-> value, spades |-> value, hearts |-> value,
     diamonds |-> value, clubs |-> value]

PerStrain_index(c, k) ==
    CASE k = NoTrump -> c.notrump
      [] k = Strain_from("Spades") -> c.spades
      [] k = Strain_from("Hearts") -> c.hearts
      [] k = Strain_from("Diamonds") -> c.diamonds
      [] k = Strain_from("Clubs") -> c.clubs

PerStrain_index_mut(c, k, w) ==
    CASE k = NoTrump -> [c EXCEPT !.notrump = w]
      [] k = Strain_from("Spades") -> [c EXCEPT !.spades = w]
      [] k = Strain_from("Hearts") -> [c EXCEPT !.hearts = w]
      [] k = Strain_from("Diamonds") -> [c EXCEPT !.diamonds = w]
      [] k = Strain_from("Clubs") -> [c EXCEPT !.clubs = w]

PerSide_new(value) == [ns |-> value, ew |-> value]

PerSide_map(c, f) == [ns |-> f[c.ns], ew |-> f[c.ew]]

PerSide_index(c, k) ==
    CASE k = "NS" -> c.ns
      [] k = "EW" -> c.ew

PerSide_index_mut(c, k, w) ==
    CASE k = "NS" -> [c EXCEPT !.ns = w]
      [] k = "EW" -> [c EXCEPT !.ew = w]

----------------------------------------------------------------------------
(* Helpers of the state machine *)

BoundedSeq(S, n) == UNION {[1 .. k -> S] : k \in 0 .. n}

\* the bit patterns Holding(bits) with every set bit in positions 2..14
CardHoldings == SUBSET (2 .. 14)

NoIterator == [holding |-> {}, front |-> 0, back |-> 0]

SeatIdle ==
    /\ origin = "North" /\ seat = "North" /\ other = "North"
    /\ turns = 0 /\ sop = "none" /\ sres = "none"

PerIdle ==
    /\ pkind = "none" /\ per = <<>> /\ pphase = "init"
    /\ pv = 0 /\ pf = <<>> /\ pold = <<>>

HoldingIdle ==
    /\ holding = Holding_new /\ nops = 0 /\ xs = <<>> /\ pc = "build"
    /\ it = NoIterator /\ outF = <<>> /\ outB = <<>> /\ ret = <<>>

----------------------------------------------------------------------------
(* Holding operations.  iter(self) takes the holding by value (Holding is   *)
(* Copy), so the iterator never sees a later add or remove: the holding is *)
(* built first and iterated afterwards.                                    *)

Add(rank) ==
    /\ pc = "build" /\ nops < MaxOps
    /\ holding' = add(holding, rank)
    /\ nops' = nops + 1
    /\ UNCHANGED <<xs, pc, it, outF, outB, ret>>
    /\ UNCHANGED svars /\ UNCHANGED pvars

Remove(rank) ==
    /\ pc = "build" /\ nops < MaxOps
    /\ holding' = remove(holding, rank)
    /\ nops' = nops + 1
    /\ UNCHANGED <<xs, pc, it, outF, outB, ret>>
    /\ UNCHANGED svars /\ UNCHANGED pvars

FromIter(s) ==
    /\ pc = "build"
    /\ holding' = from_iter(s)
    /\ nops' = nops + Len(s)
    /\ UNCHANGED <<xs, pc, it, outF, outB, ret>>
    /\ UNCHANGED svars /\ UNCHANGED pvars

Iter ==
    /\ it' = iter(holding)
    /\ pc' = "iter"
    /\ outF' = <<>> /\ outB' = <<>> /\ ret' = <<>>
    /\ UNCHANGED <<holding, nops, xs>>
    /\ UNCHANGED svars /\ UNCHANGED pvars

IterNext ==
    /\ pc # "build"
    /\ LET r == HoldingIterator_next(it) IN
        /\ it' = r.it
        /\ ret' = r.ret
        /\ outF' = outF \o r.ret
    /\ pc' = "next"
    /\ UNCHANGED <<holding, nops, xs, outB>>
    /\ UNCHANGED svars /\ UNCHANGED pvars

IterNextBack ==
    /\ pc # "build"
    /\ LET r == HoldingIterator_next_back(it) IN
        /\ it' = r.it
        /\ ret' = r.ret
        /\ outB' = outB \o r.ret
    /\ pc' = "next_back"
    /\ UNCHANGED <<holding, nops, xs, outF>>
    /\ UNCHANGED svars /\ UNCHANGED pvars

----------------------------------------------------------------------------
(* Specifications of the Holding *)

\* Holding::new(), then add / remove / from_iter with any u32 rank, then iteration
Init == HoldingIdle /\ SeatIdle /\ PerIdle

Next ==
    \/ \E rank \in Ranks : Add(rank)
    \/ \E rank \in Ranks : Remove(rank)
    \/ \E s \in BoundedSeq(Ranks, MaxOps - nops) : FromIter(s)
    \/ Iter
    \/ IterNext
    \/ IterNextBack

Spec == Init /\ [][Next]_vars

\* Holding(bits) for every card holding, then iteration from both ends
InitIter ==
    /\ holding \in CardHoldings
    /\ nops = 0 /\ xs = <<>> /\ pc = "build"
    /\ it = NoIterator /\ outF = <<>> /\ outB = <<>> /\ ret = <<>>
    /\ SeatIdle /\ PerIdle

NextIter ==
    \/ Iter
    \/ IterNext
    \/ IterNextBack

SpecIter == InitIter /\ [][NextIter]_vars

\* from_iter(xs) for every short sequence of card ranks, then forward iteration
InitFromIter ==
    /\ xs \in BoundedSeq(2 .. 14, MaxLen)
    /\ holding = Holding_new /\ nops = 0 /\ pc = "build"
    /\ it = NoIterator /\ outF = <<>> /\ outB = <<>> /\ ret = <<>>
    /\ SeatIdle /\ PerIdle

NextFromIter ==
    \/ (nops = 0 /\ FromIter(xs))
    \/ Iter
    \/ IterNext

SpecFromIter == InitFromIter /\ [][NextFromIter]_vars

----------------------------------------------------------------------------
(* Seat operations: a walk round the table and relation_to queries *)

InitSeat ==
    /\ origin \in Seats /\ seat = origin /\ other \in Seats
    /\ turns = 0 /\ sop = "none" /\ sres = "none"
    /\ HoldingIdle /\ PerIdle

SeatNext ==
    /\ turns < MaxTurns
    /\ seat' = next(seat)
    /\ turns' = turns + 1
    /\ sop' = "next" /\ sres' = seat'
    /\ UNCHANGED <<origin, other>>
    /\ UNCHANGED hvars /\ UNCHANGED pvars

SeatLho ==
    /\ turns < MaxTurns
    /\ seat' = lho(seat)
    /\ turns' = turns + 1
    /\ sop' = "lho" /\ sres' = seat'
    /\ UNCHANGED <<origin, other>>
    /\ UNCHANGED hvars /\ UNCHANGED pvars

SeatPartner ==
    /\ turns + 2 <= MaxTurns
    /\ seat' = partner(seat)
    /\ turns' = turns + 2
    /\ sop' = "partner" /\ sres' = seat'
    /\ UNCHANGED <<origin, other>>
    /\ UNCHANGED hvars /\ UNCHANGED pvars

SeatRho ==
    /\ turns > 0
    /\ seat' = rho(seat)
    /\ turns' = turns - 1
    /\ sop' = "rho" /\ sres' = seat'
    /\ UNCHANGED <<origin, other>>
    /\ UNCHANGED hvars /\ UNCHANGED pvars

SeatRelationTo ==
    /\ sres' = relation_to(seat, other)
    /\ sop' = "relation_to"
    /\ UNCHANGED <<origin, seat, other, turns>>
    /\ UNCHANGED hvars /\ UNCHANGED pvars

NextSeat ==
    \/ SeatNext
    \/ SeatLho
    \/ SeatPartner
    \/ SeatRho
    \/ SeatRelationTo

SpecSeat == InitSeat /\ [][NextSeat]_vars

----------------------------------------------------------------------------
(* Container operations *)

PerKinds == {"PerSuit", "PerSeat", "PerStrain", "PerSide"}
Vals == 0 .. MaxVal

Keys(kind) ==
    CASE kind = "PerSuit" -> Suits
      [] kind = "PerSeat" -> Seats
      [] kind = "PerStrain" -> Strains
      [] kind = "PerSide" -> Sides

Per_new(kind, value) ==
    CASE kind = "PerSuit" -> PerSuit_new(value)
      [] kind = "PerSeat" -> PerSeat_new(value)
      [] kind = "PerStrain" -> PerStrain_new(value)
      [] kind = "PerSide" -> PerSide_new(value)

Per_index(kind, c, k) ==
    CASE kind = "PerSuit" -> PerSuit_index(c, k)
      [] kind = "PerSeat" -> PerSeat_index(c, k)
      [] kind = "PerStrain" -> PerStrain_index(c, k)
      [] kind = "PerSide" -> PerSide_index(c, k)

Per_index_mut(kind, c, k, w) ==
    CASE kind = "PerSuit" -> PerSuit_index_mut(c, k, w)
      [] kind = "PerSeat" -> PerSeat_index_mut(c, k, w)
      [] kind = "PerStrain" -> PerStrain_index_mut(c, k, w)
      [] kind = "PerSide" -> PerSide_index_mut(c, k, w)

InitPer ==
    /\ pkind \in PerKinds /\ per = <<>> /\ pphase = "init"
    /\ pv = 0 /\ pf = <<>> /\ pold = <<>>
    /\ HoldingIdle /\ SeatIdle

PerNew(value) ==
    /\ per' = Per_new(pkind, value)
    /\ pv' = value
    /\ pphase' = "fresh"
    /\ pf' = <<>> /\ pold' = <<>>
    /\ UNCHANGED pkind
    /\ UNCHANGED hvars /\ UNCHANGED svars

\* container[k] = w
PerIndexMut(k, w) ==
    /\ pphase # "init"
    /\ per' = Per_index_mut(pkind, per, k, w)
    /\ pphase' = "built"
    /\ pf' = <<>> /\ pold' = <<>>
    /\ UNCHANGED <<pkind, pv>>
    /\ UNCHANGED hvars /\ UNCHANGED svars

PerSuitMap(f) ==
    /\ pkind = "PerSuit" /\ pphase # "init"
    /\ per' = PerSuit_map(per, f)
    /\ pold' = per /\ pf' = f /\ pphase' = "mapped"
    /\ UNCHANGED <<pkind, pv>>
    /\ UNCHANGED hvars /\ UNCHANGED svars

PerSeatMap(f) ==
    /\ pkind = "PerSeat" /\ pphase # "init"
    /\ per' = PerSeat_map(per, f)
    /\ pold' = per /\ pf' = f /\ pphase' = "mapped"
    /\ UNCHANGED <<pkind, pv>>
    /\ UNCHANGED hvars /\ UNCHANGED svars

PerSideMap(f) ==
    /\ pkind = "PerSide" /\ pphase # "init"
    /\ per' = PerSide_map(per, f)
    /\ pold' = per /\ pf' = f /\ pphase' = "mapped"
    /\ UNCHANGED <<pkind, pv>>
    /\ UNCHANGED hvars /\ UNCHANGED svars

\* map exists on PerSuit, PerSeat and PerSide; PerStrain defines none
PerMap ==
    \E f \in [Vals -> Vals] : PerSuitMap(f) \/ PerSeatMap(f) \/ PerSideMap(f)

NextPer ==
    \/ \E value \in Vals : PerNew(value)
    \/ \E k \in Keys(pkind), w \in Vals : PerIndexMut(k, w)
    \/ PerMap

SpecPer == InitPer /\ [][NextPer]_vars

----------------------------------------------------------------------------
(* Properties of the Holding *)

Range(s) == {s[i] : i \in 1 .. Len(s)}

\* the ranks 2..14 whose bit is set
HeldRanks(h) == {r \in 2 .. 14 : r \in h}

MinOf(S) == CHOOSE m \in S : \A x \in S : m <= x
MaxOf(S) == CHOOSE m \in S : \A x \in S : m >= x

RECURSIVE Ascending(_)
Ascending(S) ==
    IF S = {} THEN <<>> ELSE <<MinOf(S)>> \o Ascending(S \ {MinOf(S)})

Reverse(s) == [i \in 1 .. Len(s) |-> s[Len(s) + 1 - i]]

StrictlyAscending(s) == \A i \in 1 .. (Len(s) - 1) : s[i] < s[i + 1]
StrictlyDescending(s) == \A i \in 1 .. (Len(s) - 1) : s[i] > s[i + 1]

\* a call on the iterator has just returned None
ReportedExhaustion == pc \in {"next", "next_back"} /\ ret = <<>>

\* C1: an iterator over a card holding traversed with next() alone yields the
\* held ranks in strictly ascending order, and one traversed with next_back()
\* alone yields the reverse; 0b100100100 gives 2,5,8 and 8,5,2.
C1_ForwardAndBackwardAgree ==
    /\ (pc = "next" /\ ret = <<>> /\ outB = <<>>)
          => /\ outF = Ascending(HeldRanks(it.holding))
             /\ StrictlyAscending(outF)
             /\ (it.holding = Bits(292) => outF = <<2, 5, 8>>)
    /\ (pc = "next_back" /\ ret = <<>> /\ outF = <<>>)
          => /\ outB = Reverse(Ascending(HeldRanks(it.holding)))
             /\ StrictlyDescending(outB)
             /\ (it.holding = Bits(292) => outB = <<8, 5, 2>>)

C1_Witness ==
    /\ it.holding = Bits(292) /\ pc = "next_back" /\ ret = <<>>
    /\ outF = <<>> /\ outB = <<8, 5, 2>>

\* C2: from_iter(xs) for ranks xs in 2..14, read back with iter() and next(),
\* yields the sorted, deduplicated ranks of xs.
C2_FromIterReadsBackSortedSet ==
    (pc = "next" /\ ret = <<>> /\ nops = Len(xs))
        => outF = Ascending(Range(xs))

C2_Witness ==
    /\ xs = <<8, 2, 14, 8>> /\ nops = 4 /\ pc = "next" /\ ret = <<>>
    /\ outF = <<2, 8, 14>>

\* C3: for every holding, count() equals the number of ranks iter() yields
\* before it reports exhaustion.
C3_CountIsIterLength ==
    (pc = "next" /\ ret = <<>> /\ outB = <<>>)
        => count(it.holding) = Len(outF)

\* C4: after any add, remove and from_iter calls with ranks in 0..31, no bit
\* outside positions 2..14 of the holding is set.
C4_NoBitOutsideCardRanks == holding \subseteq (2 .. 14)

C8_State ==
    pc # "build" =>
        /\ StrictlyAscending(outF)
        /\ StrictlyDescending(outB)
        /\ \A i \in 1 .. Len(outF) : \A j \in 1 .. Len(outB) : outF[i] < outB[j]
        /\ (Range(outF) \cup Range(outB)) \subseteq HeldRanks(it.holding)
        /\ Len(outF) + Len(outB) = Cardinality(Range(outF) \cup Range(outB))
        /\ (it.front > it.back)
              <=> (Range(outF) \cup Range(outB) = HeldRanks(it.holding))
        /\ ReportedExhaustion => it.front > it.back

C8_Step ==
    (pc # "build" /\ pc' \in {"next", "next_back"}) =>
        /\ (ret' = <<>>) <=> (it.front > it.back)
        /\ (it.front > it.back) => (it' = it /\ outF' = outF /\ outB' = outB)

\* C8: under every interleaving of next() and next_back() on one iterator
\* over a card holding each held rank is emitted exactly once, next() ascends,
\* next_back() descends, every next() value is below every next_back() value,
\* a call returns None exactly when front > back, which is exactly when all
\* held ranks are out, and from then on calls return None and move nothing.
C8_InterleavedEmitsEachOnce == [](C8_State) /\ [][C8_Step]_vars

C8_Witness ==
    /\ pc = "next" /\ ret = <<>>
    /\ outF = <<2, 5>> /\ outB = <<11, 8>>

\* C9: in every state of an iteration over a card holding, calls after
\* exhaustion included, 2 <= front <= 15 and 1 <= back <= 14.
C9_CursorsInRange ==
    pc # "build" =>
        /\ 2 <= it.front /\ it.front <= 15
        /\ 1 <= it.back /\ it.back <= 14

C9_Witness ==
    /\ pc = "next_back" /\ ret = <<>> /\ outF # <<>>
    /\ it.front = 15 /\ it.back >= 2

\* C10: the cursors are never crossed by more than one position,
\* front <= back + 1.
C10_NeverCrossedByMoreThanOne == pc # "build" => it.front <= it.back + 1

\* C10 as amended: front rests on the lowest held rank next() has not yet
\* returned, or on 15 when there is none, whether or not that is past back;
\* back rests on the highest held rank next_back() has not yet returned, or
\* on 1; the cursors are crossed by at most 14 positions.
C10_CursorsRestOnUnreturnedRank ==
    pc # "build" =>
        /\ it.front = MinOf((HeldRanks(it.holding) \ Range(outF)) \cup {15})
        /\ it.back = MaxOf((HeldRanks(it.holding) \ Range(outB)) \cup {1})
        /\ it.front <= it.back + 14

C10_Witness ==
    /\ pc = "next" /\ it.front \in HeldRanks(it.holding)
    /\ it.front > it.back + 1

----------------------------------------------------------------------------
(* Properties of Seat *)

\* the position of a seat on the rotation North, East, South, West
Pos(s) ==
    CASE s = "North" -> 0
      [] s = "East" -> 1
      [] s = "South" -> 2
      [] s = "West" -> 3

RelationAt(d) ==
    CASE d = 0 -> "Me"
      [] d = 1 -> "LHO"
      [] d = 2 -> "Partner"
      [] d = 3 -> "RHO"

\* C5: a.relation_to(b) is Me exactly when a == b, LHO exactly when
\* a == b.next(), Partner exactly when a == b.partner(), RHO exactly when
\* a == b.rho(); for a fixed b the four seats map one-to-one onto the four
\* relations.
C5_RelationPartitionsSeats ==
    /\ \A a \in Seats :
        /\ (relation_to(a, other) = "Me") <=> (a = other)
        /\ (relation_to(a, other) = "LHO") <=> (a = next(other))
        /\ (relation_to(a, other) = "Partner") <=> (a = partner(other))
        /\ (relation_to(a, other) = "RHO") <=> (a = rho(other))
    /\ {relation_to(a, other) : a \in Seats} = SeatRelations
    /\ \A a1, a2 \in Seats :
        relation_to(a1, other) = relation_to(a2, other) => a1 = a2
    /\ sop = "relation_to"
          => sres = RelationAt((Pos(seat) + 4 - Pos(other)) % 4)

C5_Witness ==
    /\ sop = "relation_to" /\ sres = "RHO"
    /\ seat = "West" /\ other = "North" /\ turns = 3

\* C6: next generates a 4-cycle without fixed point, lho is next, partner is
\* next twice and an involution, rho is the inverse of next and next three
\* times.
C6_SeatRotationIsCyclic ==
    /\ Pos(seat) = (Pos(origin) + turns) % 4
    /\ (turns % 4 = 0) => seat = origin
    /\ next(next(next(next(seat)))) = seat
    /\ next(seat) # seat
    /\ lho(seat) = next(seat)
    /\ partner(seat) = next(next(seat))
    /\ partner(partner(seat)) = seat
    /\ rho(next(seat)) = seat
    /\ next(rho(seat)) = seat
    /\ rho(seat) = next(next(next(seat)))

C6_Witness ==
    /\ origin = "North" /\ seat = "North" /\ turns = 4 /\ sop = "next"

----------------------------------------------------------------------------
(* Properties of the containers *)

PerNewIndexesToValue ==
    pphase = "fresh" => \A k \in Keys(pkind) : Per_index(pkind, per, k) = pv

PerMapKeepsKeys ==
    pphase = "mapped" =>
        \A k \in Keys(pkind) :
            Per_index(pkind, per, k) = pf[Per_index(pkind, pold, k)]

====
